---- MODULE Spec2Model ----
(***************************************************************************)
(* Verification development for the tl;dv ingestion backend:               *)
(*   - the Job entity and its state-machine methods (app/models/job.py)    *)
(*   - the provider rate limiter and retrying client                       *)
(*     (app/services/tldv_service.py)                                      *)
(*   - the batch download orchestrator and the stuck-job monitor           *)
(*     (tasks/meeting_tasks.py, tasks/job_task.py)                         *)
(*   - the item task download_single_meeting (tasks/meeting_tasks.py)      *)
(* Each component has its own specification (SpecJob, SpecLimiter, ...)    *)
(* over the component's variables; the other variables stay at their       *)
(* initial values.                                                         *)
(***************************************************************************)
EXTENDS Integers, Sequences, FiniteSets, TLC

VARIABLES
    job,            \* the in-memory Job object (models/job.py Job)
    utcnow,         \* datetime.utcnow(), in abstract ticks (hours in the pipeline)
    lastCall,       \* history: the last Job method called and whether it raised
    now,            \* time.time(), in seconds
    request_times,  \* TLDVRateLimiter.request_times
    requests_per_minute, \* TLDVRateLimiter.requests_per_minute
    released,       \* history: one record per wait_if_needed() call that returned
    taskPc,         \* item task -> "queued" | "ready" | "sleeping"
    taskLimiter,    \* item task -> request_times of its TLDVService's limiter
    taskWait,       \* item task -> the wait_if_needed() call it is sleeping in
    itemPc,         \* download_single_meeting: position of the task
    itemRetries,    \* download_single_meeting: self.request.retries
    meeting_url,    \* download_single_meeting: whether meeting.url is set
    itemResult,     \* download_single_meeting: the result dict, then the return value
    itemSteps,      \* history: the steps the task attempted and how each went
    cliPc,          \* _make_request: "idle" | "loop" | "returned" | "raised"
    attempt,        \* _make_request: the loop variable
    max_retries,    \* TLDVService.max_retries
    responses,      \* history: the outcome of every HTTP call of the request
    sleeps,         \* history: the time.sleep() calls made by _make_request
    outcome,        \* what _make_request returned or raised
    store,          \* JobStore: job id -> stored job document
    filters_dict,   \* download_meetings_job: "valid" | "invalid" filters
    provider,       \* number of meetings the provider holds for the filters
    orchPc,         \* download_meetings_job: position of the task
    orchRetries,    \* download_meetings_job: self.request.retries
    progress,       \* download_meetings_job: the local JobProgress object
    fetched,        \* get_all_meetings_batch: items retrieved so far
    page,           \* get_all_meetings_batch: pages retrieved so far
    idx,            \* download_meetings_job: loop variable i
    counters,       \* download_meetings_job: processed_meetings, failed_meetings, errors
    dispatched,     \* history: the download_single_meeting.apply_async calls
    lastError,      \* history: the exception the task's handlers caught last
    orchRuns,       \* history: how many times the task body has started
    reapPc,         \* monitor_stuck_jobs: "idle" | "loop"
    running_jobs,   \* monitor_stuck_jobs: the documents not yet looked at
    cutoff_time,    \* monitor_stuck_jobs: cutoff_time
    reaped,         \* history: the jobs monitor_stuck_jobs has marked failed
    cleanPc,        \* cleanup task: "idle" | "expired" | "failed" (the task running)
    clean_jobs,     \* cleanup task: the documents not yet looked at
    clean_cutoff    \* cleanup task: cutoff_time

jobVars == <<job, utcnow, lastCall>>
limVars == <<now, request_times, requests_per_minute, released>>
itemVars == <<itemPc, itemRetries, meeting_url, itemResult, itemSteps>>
wrkVars == <<taskPc, taskLimiter, taskWait, itemVars>>
cliVars == <<cliPc, attempt, max_retries, responses, sleeps, outcome>>
orchVars == <<filters_dict, provider, orchPc, orchRetries, progress, fetched, page,
              idx, counters, dispatched, lastError, orchRuns>>
reapVars == <<reapPc, running_jobs, cutoff_time, reaped>>
cleanVars == <<cleanPc, clean_jobs, clean_cutoff>>
pipeVars == <<store, orchVars, reapVars, cleanVars>>
vars == <<jobVars, limVars, wrkVars, cliVars, pipeVars>>

\* Optional[X]: None is the empty tuple, a present value x is <<x>>.
None == <<>>
Some(x) == <<x>>
ValueOf(o) == o[1]

\* ------------------------------------------------------------------------
\* Bounds
\* ------------------------------------------------------------------------
MaxJobTime == 1        \* utcnow ranges over 0..MaxJobTime in SpecJob
MaxErrors == 4         \* Job.errors is capped at this length
MaxTime == 125         \* the limiter's clock ticks while now < MaxTime
MaxCalls == 6          \* wait_if_needed() calls per behaviour of SpecLimiter
NumTasks == 2          \* concurrent item tasks in SpecWorkers
MaxTaskCalls == 4      \* wait_if_needed() calls per behaviour of SpecWorkers
MaxWorkerTime == 61    \* the workers' clock ticks while now < MaxWorkerTime
MaxClientRetries == 3  \* TLDVService.max_retries ranges over 0..MaxClientRetries
MaxItems == 3          \* the provider holds 0..MaxItems meetings
MaxHours == 3          \* the pipeline's clock ticks while utcnow < MaxHours

\* ------------------------------------------------------------------------
\* Job entity (models/job.py)
\* ------------------------------------------------------------------------
JobStatus == {"pending", "running", "completed", "failed", "cancelled"}

DefaultMaxRetries == 3

\* The graph of section 4.3 of the specification.
TransitionGraph ==
    { <<"pending", "running">>, <<"running", "completed">>,
      <<"running", "failed">>, <<"running", "cancelled">>,
      <<"failed", "pending">> }

JobProgress(step, total_steps) ==
    [ current_step |-> step, total_steps |-> total_steps, completed_steps |-> 0,
      current_item |-> None, processed_items |-> 0, total_items |-> None ]

\* Job(...) with the field defaults of the model class.
NewJob(retry_limit, t) ==
    [ status |-> "pending", created_at |-> t, started_at |-> None,
      completed_at |-> None, updated_at |-> t, progress |-> None,
      result |-> None, errors |-> <<>>, retry_count |-> 0,
      max_retries |-> retry_limit ]

add_error(j, error_code, t) ==
    [ j EXCEPT !.errors = Append(@, [ timestamp |-> t, error_code |-> error_code,
                                      retry_count |-> j.retry_count ]),
               !.updated_at = t ]

\* update_progress(**kwargs) with kwargs = {completed_steps, processed_items}
update_progress(j, completed_steps, processed_items, t) ==
    LET p0 == IF j.progress = None THEN JobProgress("Starting", 1)
              ELSE ValueOf(j.progress)
    IN [ j EXCEPT !.progress = Some([ p0 EXCEPT !.completed_steps = completed_steps,
                                                 !.processed_items = processed_items ]),
                  !.updated_at = t ]

start(j, t) ==
    [ j EXCEPT !.status = "running", !.started_at = Some(t), !.updated_at = t ]

complete(j, result, t) ==
    LET j1 == [ j EXCEPT !.status = "completed", !.completed_at = Some(t), !.updated_at = t ]
    IN IF result # None THEN [ j1 EXCEPT !.result = result ] ELSE j1   \* "if result:"

fail(j, error_code, t) ==
    add_error([ j EXCEPT !.status = "failed", !.completed_at = Some(t), !.updated_at = t ],
              error_code, t)

cancel(j, t) ==
    [ j EXCEPT !.status = "cancelled", !.completed_at = Some(t), !.updated_at = t ]

can_retry_Off(j) ==
    j.status = "failed" /\ j.retry_count <= j.max_retries

can_retry(j) ==
    j.status = "failed" /\ j.retry_count < j.max_retries

retry_NoCount(j, t) ==
    [ j EXCEPT !.status = "pending", !.started_at = None, !.completed_at = None,
               !.updated_at = t,
               !.progress = IF j.progress = None THEN None
                            ELSE Some([ ValueOf(j.progress) EXCEPT
                                            !.completed_steps = 0,
                                            !.processed_items = 0,
                                            !.current_step = "Retrying" ]) ]

\* retry() past its can_retry() guard
retry(j, t) ==
    [ j EXCEPT !.retry_count = @ + 1, !.status = "pending", !.started_at = None,
               !.completed_at = None, !.updated_at = t,
               !.progress = IF j.progress = None THEN None
                            ELSE Some([ ValueOf(j.progress) EXCEPT
                                            !.completed_steps = 0,
                                            !.processed_items = 0,
                                            !.current_step = "Retrying" ]) ]

\* ------------------------------------------------------------------------
\* SpecJob: any sequence of method calls on one Job object.  Every call
\* reads the clock, which may have advanced since the previous call.
\* ------------------------------------------------------------------------
Call(op, raised) == [ op |-> op, raised |-> raised ]

InitJobIdle ==
    /\ utcnow = 0
    /\ job = NewJob(DefaultMaxRetries, 0)
    /\ lastCall = Call("init", FALSE)

InitLimiterIdle ==
    /\ now = 0
    /\ request_times = <<>>
    /\ requests_per_minute = 0
    /\ released = <<>>

Tasks == 1..NumTasks

InitItemIdle ==
    /\ itemPc = "idle"
    /\ itemRetries = 0
    /\ meeting_url = FALSE
    /\ itemResult = None
    /\ itemSteps = <<>>

InitWorkersIdle ==
    /\ taskPc = [ t \in Tasks |-> "queued" ]
    /\ taskLimiter = [ t \in Tasks |-> <<>> ]
    /\ taskWait = [ t \in Tasks |-> None ]
    /\ InitItemIdle

InitClientIdle ==
    /\ cliPc = "idle"
    /\ attempt = 0
    /\ max_retries = 0
    /\ responses = <<>>
    /\ sleeps = <<>>
    /\ outcome = None

InitCleanupIdle ==
    /\ cleanPc = "idle"
    /\ clean_jobs = <<>>
    /\ clean_cutoff = 0

InitPipelineIdle ==
    /\ store = <<>>
    /\ filters_dict = "valid"
    /\ provider = 0
    /\ orchPc = "idle"
    /\ orchRetries = 0
    /\ progress = None
    /\ fetched = 0
    /\ page = 0
    /\ idx = 0
    /\ counters = <<>>
    /\ dispatched = <<>>
    /\ lastError = None
    /\ orchRuns = 0
    /\ reapPc = "idle"
    /\ running_jobs = <<>>
    /\ cutoff_time = 0
    /\ reaped = {}
    /\ InitCleanupIdle

InitJob ==
    /\ utcnow = 0
    /\ \E m \in 0..DefaultMaxRetries : job = NewJob(m, 0)
    /\ lastCall = Call("init", FALSE)
    /\ InitLimiterIdle
    /\ InitWorkersIdle
    /\ InitClientIdle
    /\ InitPipelineIdle

JobStart ==
    \E t \in utcnow..MaxJobTime :
        /\ utcnow' = t
        /\ job' = start(job, t)
        /\ lastCall' = Call("start", FALSE)
        /\ UNCHANGED <<limVars, wrkVars, cliVars, pipeVars>>

JobComplete ==
    \E t \in utcnow..MaxJobTime, result \in {None, Some("r1"), Some("r2")} :
        /\ utcnow' = t
        /\ job' = complete(job, result, t)
        /\ lastCall' = Call("complete", FALSE)
        /\ UNCHANGED <<limVars, wrkVars, cliVars, pipeVars>>

JobFail ==
    \E t \in utcnow..MaxJobTime :
        /\ Len(job.errors) < MaxErrors
        /\ utcnow' = t
        /\ job' = fail(job, "E", t)
        /\ lastCall' = Call("fail", FALSE)
        /\ UNCHANGED <<limVars, wrkVars, cliVars, pipeVars>>

JobCancel ==
    \E t \in utcnow..MaxJobTime :
        /\ utcnow' = t
        /\ job' = cancel(job, t)
        /\ lastCall' = Call("cancel", FALSE)
        /\ UNCHANGED <<limVars, wrkVars, cliVars, pipeVars>>

JobRetry ==
    \E t \in utcnow..MaxJobTime :
        /\ utcnow' = t
        /\ IF can_retry(job)
           THEN /\ job' = retry(job, t)
                /\ lastCall' = Call("retry", FALSE)
           ELSE /\ job' = job                     \* raise ValueError
                /\ lastCall' = Call("retry", TRUE)
        /\ UNCHANGED <<limVars, wrkVars, cliVars, pipeVars>>

\* the keyword arguments of the update_progress() calls:
\* <<completed_steps, processed_items>>
ProgressUpdates == { <<1, 2>> }

JobUpdateProgress ==
    \E t \in utcnow..MaxJobTime, kw \in ProgressUpdates :
        /\ utcnow' = t
        /\ job' = update_progress(job, kw[1], kw[2], t)
        /\ lastCall' = Call("update_progress", FALSE)
        /\ UNCHANGED <<limVars, wrkVars, cliVars, pipeVars>>

NextJob ==
    \/ JobStart
    \/ JobComplete
    \/ JobFail
    \/ JobCancel
    \/ JobRetry
    \/ JobUpdateProgress

SpecJob == InitJob /\ [][NextJob]_vars

\* ------------------------------------------------------------------------
\* Properties of the Job state machine
\* ------------------------------------------------------------------------

\* C1: every change of status made by start/complete/fail/cancel/retry is an
\* edge of the graph pending->running, running->completed, running->failed,
\* running->cancelled, failed->pending.
C1_StatusFollowsGraph ==
    [][ job'.status # job.status =>
            <<job.status, job'.status>> \in TransitionGraph ]_vars

\* C2: start() on a job that is not pending, and complete()/fail()/cancel()
\* on a job that is not running, raise and leave every field unchanged.
C2_InvalidTransitionRefused ==
    [][ ( \/ lastCall'.op = "start" /\ job.status # "pending"
          \/ lastCall'.op \in {"complete", "fail", "cancel"} /\ job.status # "running" )
        => ( lastCall'.raised /\ job' = job ) ]_vars

\* C3: retry() on a failed job with retry_count < max_retries does not raise,
\* sets status to pending, clears started_at and completed_at, resets
\* completed_steps and processed_items of an existing progress to 0 and
\* increments retry_count by exactly 1.
C3_RetryResets ==
    [][ ( lastCall'.op = "retry" /\ job.status = "failed"
          /\ job.retry_count < job.max_retries )
        => ( /\ ~lastCall'.raised
             /\ job'.status = "pending"
             /\ job'.started_at = None
             /\ job'.completed_at = None
             /\ job'.retry_count = job.retry_count + 1
             /\ (job.progress = None) = (job'.progress = None)
             /\ job'.progress # None =>
                    /\ ValueOf(job'.progress).completed_steps = 0
                    /\ ValueOf(job'.progress).processed_items = 0 ) ]_vars

\* A retry that succeeded for the second time on a job that has a progress.
C3_Witness ==
    /\ lastCall = Call("retry", FALSE)
    /\ job.status = "pending"
    /\ job.retry_count = 2
    /\ job.progress # None

\* C4: retry() raises and leaves the job unchanged whenever the status is not
\* failed or retry_count = max_retries, and retry_count never exceeds
\* max_retries.
C4_RetryRefused ==
    /\ [](job.retry_count <= job.max_retries)
    /\ [][ ( lastCall'.op = "retry"
             /\ (job.status # "failed" \/ job.retry_count = job.max_retries) )
           => ( lastCall'.raised /\ job' = job ) ]_vars

\* A refused retry of a failed job that has used up its three retries.
C4_Witness ==
    /\ lastCall = Call("retry", TRUE)
    /\ job.status = "failed"
    /\ job.max_retries = DefaultMaxRetries
    /\ job.retry_count = job.max_retries

\* ------------------------------------------------------------------------
\* Rate limiter (services/tldv_service.py TLDVRateLimiter)
\* ------------------------------------------------------------------------
Window == 60

\* TLDVRateLimiter(): self.request_times = []
NewRateLimiter == <<>>

\* the default of TLDVRateLimiter(requests_per_minute), used by TLDVService()
DefaultRequestsPerMinute == 60

\* [t for t in self.request_times if now - t < 60]
Prune(times, t0) == SelectSeq(times, LAMBDA t : t0 - t < Window)

SleepTime_Late(times, limit, t0) ==
    IF Len(times) > limit
    THEN LET sleep_time == Window - (t0 - times[1]) + 1
         IN IF sleep_time > 0 THEN sleep_time ELSE 0
    ELSE 0

SleepTime_Skip(times, limit, t0) == 0

\* sleep_time = 60 - (now - self.request_times[0]) + 1, slept only if > 0
SleepTime(times, limit, t0) ==
    IF Len(times) >= limit
    THEN LET sleep_time == Window - (t0 - times[1]) + 1
         IN IF sleep_time > 0 THEN sleep_time ELSE 0
    ELSE 0

\* the timestamp wait_if_needed() appends: the `now` read on entry
Recorded(t0, slept) == t0

\* wait_if_needed(): the state of the limiter and the clock when it returns
wait_if_needed(times, limit, t0) ==
    LET pruned == Prune(times, t0)
        slept  == SleepTime(pruned, limit, t0)
    IN [ request_times |-> Append(pruned, Recorded(t0, slept)),
         slept |-> slept,
         returned_at |-> t0 + slept ]

\* ------------------------------------------------------------------------
\* SpecLimiter: one limiter, one caller; calls at arbitrary times.
\* ------------------------------------------------------------------------
Ceilings == {1, 2, 5}
TickSteps == {20, 61}

InitLimiter ==
    /\ now = 0
    /\ request_times = <<>>
    /\ requests_per_minute \in Ceilings
    /\ released = <<>>
    /\ InitJobIdle
    /\ InitWorkersIdle
    /\ InitClientIdle
    /\ InitPipelineIdle

LimTick ==
    \E d \in TickSteps :
        /\ now < MaxTime
        /\ now' = now + d
        /\ UNCHANGED <<request_times, requests_per_minute, released>>
        /\ UNCHANGED <<jobVars, wrkVars, cliVars, pipeVars>>

LimAcquire ==
    LET r == wait_if_needed(request_times, requests_per_minute, now)
    IN /\ Len(released) < MaxCalls
       /\ request_times' = r.request_times
       /\ now' = r.returned_at
       /\ released' = Append(released, [ called_at |-> now, slept |-> r.slept,
                                          returned_at |-> r.returned_at,
                                          oldest |-> IF r.slept > 0
                                                     THEN Some(Prune(request_times, now)[1])
                                                     ELSE None ])
       /\ UNCHANGED requests_per_minute
       /\ UNCHANGED <<jobVars, wrkVars, cliVars, pipeVars>>

NextLimiter ==
    \/ LimTick
    \/ LimAcquire

SpecLimiter == InitLimiter /\ [][NextLimiter]_vars

\* number of calls that returned in the rolling window ending at time t
ReleasedIn(rel, t) ==
    Cardinality({ i \in 1..Len(rel) :
                    rel[i].returned_at <= t /\ t - rel[i].returned_at < Window })

\* number of recorded timestamps younger than the window at time t
Younger(times, t) ==
    Cardinality({ i \in 1..Len(times) : t - times[i] < Window })

\* C6: at most requests_per_minute calls return within any rolling 60 second
\* interval.
C6_ReleasesBounded ==
    \A i \in 1..Len(released) :
        ReleasedIn(released, released[i].returned_at) <= requests_per_minute

\* C7: with a ceiling of 5, of six calls made within one window the first
\* five return without waiting and the sixth returns only when the oldest
\* recorded timestamp has left the 60 second window.
C7_SixthCallBlocks ==
    ( /\ requests_per_minute = 5
      /\ Len(released) = 6
      /\ released[6].called_at - released[1].called_at < Window )
    => /\ \A i \in 1..5 : released[i].slept = 0
       /\ released[6].slept > 0
       /\ released[6].returned_at - released[1].returned_at >= Window

C7_Witness ==
    /\ requests_per_minute = 5
    /\ Len(released) = 6
    /\ released[6].called_at - released[1].called_at < Window
    /\ released[6].slept > 0

\* C8: the number of recorded timestamps younger than 60 seconds never
\* exceeds the ceiling.
C8_WindowBounded ==
    Younger(request_times, now) <= requests_per_minute

\* The limiter had to wait and its window is full on return.
C8_Witness ==
    /\ Len(released) > 0
    /\ released[Len(released)].slept > 0
    /\ Len(request_times) > requests_per_minute
    /\ Younger(request_times, now) = requests_per_minute

\* ------------------------------------------------------------------------
\* SpecWorkers: item tasks (download_single_meeting) running concurrently in
\* one worker process.  Every task builds its own TLDVService, and with it
\* its own TLDVRateLimiter with an empty request_times; the provider
\* requests of the task go through that limiter.  The service builds the
\* limiter with the default ceiling; the model keeps the ceiling the
\* parameter it is in the limiter, so that a window fills within MaxTaskCalls.
\* A task that has to wait is suspended in time.sleep() while the others run.
\* ------------------------------------------------------------------------
InitWorkers ==
    /\ now = 0
    /\ request_times = <<>>
    /\ requests_per_minute \in Ceilings
    /\ released = <<>>
    /\ InitJobIdle
    /\ InitWorkersIdle
    /\ InitClientIdle
    /\ InitPipelineIdle

WorkerStart(t) ==
    /\ taskPc[t] = "queued"
    /\ taskPc' = [ taskPc EXCEPT ![t] = "ready" ]
    /\ taskLimiter' = [ taskLimiter EXCEPT ![t] = NewRateLimiter ]
    /\ UNCHANGED <<taskWait, itemVars, limVars, jobVars, cliVars, pipeVars>>

\* a provider request of task t enters wait_if_needed()
WorkerRequest(t) ==
    LET r == wait_if_needed(taskLimiter[t], requests_per_minute, now)
    IN /\ taskPc[t] = "ready"
       /\ Len(released) + Cardinality({ u \in Tasks : taskPc[u] = "sleeping" })
             < MaxTaskCalls
       /\ IF r.slept = 0
          THEN /\ taskLimiter' = [ taskLimiter EXCEPT ![t] = r.request_times ]
               /\ released' = Append(released, [ called_at |-> now, slept |-> 0,
                                                  returned_at |-> now, oldest |-> None ])
               /\ UNCHANGED <<taskPc, taskWait>>
          ELSE /\ taskPc' = [ taskPc EXCEPT ![t] = "sleeping" ]
               /\ taskWait' = [ taskWait EXCEPT ![t] = Some(r) ]
               /\ UNCHANGED <<taskLimiter, released>>
       /\ UNCHANGED <<now, request_times, requests_per_minute, itemVars, jobVars, cliVars,
                      pipeVars>>

\* time.sleep(sleep_time) of task t is over: the timestamp is appended and
\* the request is released
WorkerWake(t) ==
    /\ taskPc[t] = "sleeping"
    /\ now >= ValueOf(taskWait[t]).returned_at
    /\ taskLimiter' = [ taskLimiter EXCEPT ![t] = ValueOf(taskWait[t]).request_times ]
    /\ released' = Append(released,
                          [ called_at |-> ValueOf(taskWait[t]).returned_at
                                            - ValueOf(taskWait[t]).slept,
                            slept |-> ValueOf(taskWait[t]).slept,
                            returned_at |-> now,
                            oldest |-> Some(ValueOf(taskWait[t]).request_times[1]) ])
    /\ taskPc' = [ taskPc EXCEPT ![t] = "ready" ]
    /\ taskWait' = [ taskWait EXCEPT ![t] = None ]
    /\ UNCHANGED <<now, request_times, requests_per_minute, itemVars, jobVars, cliVars,
                   pipeVars>>

WorkerTick ==
    \E d \in TickSteps :
        /\ now < MaxWorkerTime
        /\ now' = now + d
        /\ UNCHANGED <<request_times, requests_per_minute, released, wrkVars, jobVars, cliVars, pipeVars>>

NextWorkers ==
    \/ \E t \in Tasks : WorkerStart(t)
    \/ \E t \in Tasks : WorkerRequest(t)
    \/ \E t \in Tasks : WorkerWake(t)
    \/ WorkerTick

SpecWorkers == InitWorkers /\ [][NextWorkers]_vars

\* C9: the requests released by all item tasks of the worker process within
\* any rolling 60 second window do not exceed the ceiling of one limiter.
C9_SharedWindow ==
    \A i \in 1..Len(released) :
        ReleasedIn(released, released[i].returned_at) <= requests_per_minute

\* ------------------------------------------------------------------------
\* Provider client (services/tldv_service.py TLDVService._make_request)
\* ------------------------------------------------------------------------
\* What one HTTP call can produce: a response with a status code, a body that
\* is a JSON object ("json"), JSON of another type such as a list or a string
\* ("json_other") or not JSON ("text") and, for 429, a Retry-After header that
\* is absent, an integer or not an integer; or an exception of the HTTP
\* library.
Http(status, body, retry_after) ==
    [ kind |-> "http", status |-> status, body |-> body, retry_after |-> retry_after ]

Exc(kind) ==
    [ kind |-> kind, status |-> 0, body |-> "none", retry_after |-> "absent" ]

HttpOutcomes ==
    { Http(200, "json", "absent"), Http(404, "json", "absent"),
      Http(404, "text", "absent"), Http(404, "json_other", "absent"),
      Http(500, "json", "absent"), Http(500, "json_other", "absent"),
      Http(503, "text", "absent"),
      Http(429, "json", "absent"), Http(429, "json", "1"), Http(429, "json", "bad") }
    \cup { Exc("Timeout"), Exc("ConnectionError"), Exc("Exception") }

\* TLDVAPIError(message, status_code, response_data)
TLDVAPIError(message, status_code, response_data) ==
    [ raised |-> TRUE, message |-> message, status_code |-> status_code,
      response_data |-> response_data ]

Returned(response) ==
    [ raised |-> FALSE, message |-> "", status_code |-> Some(response.status),
      response_data |-> response.body ]

\* error_data.get(...) on a parsed body that is not a dict
AttributeError ==
    [ raised |-> TRUE, message |-> "AttributeError", status_code |-> None,
      response_data |-> "empty" ]

\* _raise_api_error(response): the error carries the parsed JSON body, or an
\* empty dict and the first 200 characters of the text in the message; a JSON
\* body that is not an object makes error_data.get raise AttributeError, which
\* the except clause for ValueError and JSONDecodeError does not catch
_raise_api_error(response) ==
    IF response.body = "json"
    THEN TLDVAPIError("json message", Some(response.status), "json")
    ELSE IF response.body = "json_other"
    THEN AttributeError
    ELSE TLDVAPIError("HTTP status: text[:200]", Some(response.status), "empty")

Backoff_Linear(n) == 2 * n

\* time.sleep(2 ** attempt)
Backoff(n) == 2 ^ n

\* int(response.headers.get('Retry-After', 60)); "bad" makes int() raise
RetryAfter(response) ==
    IF response.retry_after = "absent" THEN 60 ELSE 1

RetryOrRaise_Generic(message) ==
    IF attempt = max_retries
    THEN /\ cliPc' = "raised"
         /\ outcome' = Some(TLDVAPIError("All retry attempts failed", None, "empty"))
         /\ UNCHANGED <<attempt, sleeps>>
    ELSE /\ attempt' = attempt + 1
         /\ sleeps' = Append(sleeps, [ why |-> "backoff", secs |-> Backoff(attempt) ])
         /\ UNCHANGED <<cliPc, outcome>>

\* The exception path shared by Timeout, ConnectionError and Exception:
\* raise on the last attempt, otherwise back off and go round the loop.
RetryOrRaise(message) ==
    IF attempt = max_retries
    THEN /\ cliPc' = "raised"
         /\ outcome' = Some(TLDVAPIError(message, None, "empty"))
         /\ UNCHANGED <<attempt, sleeps>>
    ELSE /\ attempt' = attempt + 1
         /\ sleeps' = Append(sleeps, [ why |-> "backoff", secs |-> Backoff(attempt) ])
         /\ UNCHANGED <<cliPc, outcome>>

\* self._raise_api_error(response) inside the try block of the loop: a
\* TLDVAPIError is re-raised by "except TLDVAPIError: raise", anything else
\* it raises is handled by "except Exception"
RaiseApiError(response) ==
    LET e == _raise_api_error(response)
    IN IF e = AttributeError
       THEN RetryOrRaise("Unexpected error")
       ELSE /\ cliPc' = "raised"
            /\ outcome' = Some(e)
            /\ UNCHANGED <<attempt, sleeps>>

InitClient ==
    /\ cliPc = "idle"
    /\ attempt = 0
    /\ max_retries \in 0..MaxClientRetries
    /\ responses = <<>>
    /\ sleeps = <<>>
    /\ outcome = None
    /\ now = 0
    /\ request_times = NewRateLimiter
    /\ requests_per_minute = DefaultRequestsPerMinute
    /\ released = <<>>
    /\ InitJobIdle
    /\ InitWorkersIdle
    /\ InitPipelineIdle

\* _make_request(...) is called: for attempt in range(self.max_retries + 1)
CliCall ==
    /\ cliPc = "idle"
    /\ cliPc' = "loop"
    /\ attempt' = 0
    /\ UNCHANGED <<max_retries, responses, sleeps, outcome>>
    /\ UNCHANGED <<limVars, jobVars, wrkVars, pipeVars>>

\* one iteration of the loop: wait_if_needed(), the HTTP call, and the
\* handling of what it produced, the sleep included
CliAttempt ==
    \E r \in HttpOutcomes :
        LET w == wait_if_needed(request_times, requests_per_minute, now)
        IN /\ cliPc = "loop"
           /\ attempt <= max_retries
           /\ request_times' = w.request_times
           /\ released' = Append(released, [ called_at |-> now, slept |-> w.slept,
                                              returned_at |-> w.returned_at,
                                              oldest |-> None ])
           /\ responses' = Append(responses, r)
           /\ IF r.kind = "http"
              THEN IF r.status = 200
                   THEN /\ cliPc' = "returned"
                        /\ outcome' = Some(Returned(r))
                        /\ UNCHANGED <<attempt, sleeps>>
                   ELSE IF r.status = 429
                   THEN IF r.retry_after = "bad"
                        THEN RetryOrRaise("Unexpected error")
                        ELSE /\ attempt' = attempt + 1
                             /\ sleeps' = Append(sleeps, [ why |-> "retry_after",
                                                            secs |-> RetryAfter(r) ])
                             /\ UNCHANGED <<cliPc, outcome>>
                   ELSE IF r.status >= 500
                   THEN IF attempt = max_retries
                        THEN RaiseApiError(r)
                        ELSE /\ attempt' = attempt + 1
                             /\ sleeps' = Append(sleeps, [ why |-> "backoff",
                                                            secs |-> Backoff(attempt) ])
                             /\ UNCHANGED <<cliPc, outcome>>
                   ELSE RaiseApiError(r)
              ELSE IF r.kind = "Timeout"
                   THEN RetryOrRaise("Request timeout after all retries")
              ELSE IF r.kind = "ConnectionError"
                   THEN RetryOrRaise("Connection error after all retries")
              ELSE RetryOrRaise("Unexpected error")
           /\ now' = w.returned_at + ( IF Len(sleeps') > Len(sleeps)
                                        THEN sleeps'[Len(sleeps')].secs ELSE 0 )
           /\ UNCHANGED <<max_retries, requests_per_minute>>
           /\ UNCHANGED <<jobVars, wrkVars, pipeVars>>

CliExhausted_Restart ==
    /\ cliPc = "loop"
    /\ attempt > max_retries
    /\ attempt' = 0
    /\ UNCHANGED <<cliPc, outcome, max_retries, responses, sleeps>>
    /\ UNCHANGED <<limVars, jobVars, wrkVars, pipeVars>>

\* the loop ran out: raise TLDVAPIError("All retry attempts failed")
CliExhausted ==
    /\ cliPc = "loop"
    /\ attempt > max_retries
    /\ cliPc' = "raised"
    /\ outcome' = Some(TLDVAPIError("All retry attempts failed", None, "empty"))
    /\ UNCHANGED <<attempt, max_retries, responses, sleeps>>
    /\ UNCHANGED <<limVars, jobVars, wrkVars, pipeVars>>

NextClient ==
    \/ CliCall
    \/ CliAttempt
    \/ CliExhausted

SpecClient == InitClient /\ [][NextClient]_vars

\* a worker that runs _make_request keeps running it: the loop body and the
\* sleeps in it are finite
SpecClientFair == SpecClient /\ WF_vars(CliAttempt) /\ WF_vars(CliExhausted)

IsServerError(r) == r.kind = "http" /\ r.status >= 500

\* C10: k server errors (k <= max_retries) followed by a 200: the client
\* keeps going through the k errors, sleeping 2^0, ..., 2^(k-1) seconds, and
\* returns the 200 after exactly k+1 HTTP calls.
C10_ServerErrorsThenSuccess ==
    LET n == Len(responses)
    IN /\ ( /\ n <= max_retries
            /\ \A i \in 1..n : IsServerError(responses[i]) )
          => /\ cliPc \in {"idle", "loop"}
             /\ sleeps = [ i \in 1..n |-> [ why |-> "backoff", secs |-> 2 ^ (i - 1) ] ]
       /\ ( /\ n >= 1
            /\ responses[n].kind = "http" /\ responses[n].status = 200
            /\ \A i \in 1..(n - 1) : IsServerError(responses[i]) )
          => /\ cliPc = "returned"
             /\ outcome = Some(Returned(responses[n]))
             /\ n - 1 <= max_retries
             /\ sleeps = [ i \in 1..(n - 1) |->
                              [ why |-> "backoff", secs |-> 2 ^ (i - 1) ] ]

\* [500, 500, 200] with max_retries = 3: returned on the third call
C10_Witness ==
    /\ max_retries = 3
    /\ cliPc = "returned"
    /\ Len(responses) = 3
    /\ responses[1].status = 500 /\ responses[2].status = 500
    /\ responses[3].status = 200
    /\ Len(sleeps) = 2
    /\ sleeps[1].secs + sleeps[2].secs = 3

IsClientError(r) ==
    r.kind = "http" /\ r.status >= 400 /\ r.status < 500 /\ r.status # 429

\* a 429 whose Retry-After header is absent or an integer
IsRateLimited(r) ==
    r.kind = "http" /\ r.status = 429 /\ r.retry_after # "bad"

NotRateLimited(r) == ~IsRateLimited(r)

\* the error e carries the body of response r: the parsed body as
\* response_data, or the text in the message
CarriesBody(e, r) ==
    IF r.body = "text"
    THEN e.message = "HTTP status: text[:200]"
    ELSE e.response_data = r.body

BackoffSleeps(k) ==
    [ i \in 1..k |-> [ why |-> "backoff", secs |-> 2 ^ (i - 1) ] ]

\* C11: a 4xx response other than 429 is never retried: it is the last HTTP
\* call of the request, no sleep follows it, and the request has failed with
\* an error that carries the status code and the body of that response.
C11_ClientErrorNotRetried ==
    \A i \in 1..Len(responses) :
        IsClientError(responses[i])
        => /\ i = Len(responses)
           /\ cliPc = "raised"
           /\ Len(sleeps) = i - 1
           /\ ValueOf(outcome).status_code = Some(responses[i].status)
           /\ CarriesBody(ValueOf(outcome), responses[i])

\* C12: 429 responses do not use up the retry budget: as long as the
\* responses other than 429 are at most max_retries server errors, the
\* request has not failed, however many 429 responses came in between.
C12_RateLimitedNotCounted ==
    LET rest == SelectSeq(responses, NotRateLimited)
    IN ( /\ Len(rest) <= max_retries
         /\ \A i \in 1..Len(rest) : IsServerError(rest[i]) )
       => cliPc # "raised"

\* C13: when every attempt returns a status >= 500 the client makes exactly
\* max_retries + 1 calls, sleeps 2^0, ..., 2^(max_retries - 1) seconds between
\* them and nothing after the last, and fails with an error that carries the
\* status code and the body of the last response.
C13_ServerErrorsExhaust ==
    LET n == Len(responses)
    IN ( /\ n >= 1
         /\ \A i \in 1..n : IsServerError(responses[i]) )
       => /\ n <= max_retries + 1
          /\ n <= max_retries
             => /\ cliPc = "loop"
                /\ sleeps = BackoffSleeps(n)
          /\ n = max_retries + 1
             => /\ cliPc = "raised"
                /\ sleeps = BackoffSleeps(max_retries)
                /\ ValueOf(outcome).status_code = Some(responses[n].status)
                /\ CarriesBody(ValueOf(outcome), responses[n])

TransportKinds == {"Timeout", "ConnectionError"}

TransportMessage(kind) ==
    IF kind = "Timeout"
    THEN "Request timeout after all retries"
    ELSE "Connection error after all retries"

\* C14: when every attempt times out, or every attempt fails to connect, the
\* client retries with the backoff 2^0, 2^1, ... up to max_retries times and
\* then raises the error of that kind (no status code, the message of the
\* kind); a failed request reports a timeout exactly when its last attempt
\* timed out and a connection error exactly when its last attempt failed to
\* connect, so the two are told apart from each other and from the errors
\* raised for a response.
C14_TransportErrorsExhaust ==
    LET n == Len(responses)
    IN /\ \A k \in TransportKinds :
            ( /\ n >= 1
              /\ \A i \in 1..n : responses[i].kind = k )
            => /\ n <= max_retries + 1
               /\ n <= max_retries
                  => /\ cliPc = "loop"
                     /\ sleeps = BackoffSleeps(n)
               /\ n = max_retries + 1
                  => /\ cliPc = "raised"
                     /\ sleeps = BackoffSleeps(max_retries)
                     /\ outcome = Some(TLDVAPIError(TransportMessage(k), None, "empty"))
       /\ cliPc = "raised"
          => /\ \A k \in TransportKinds :
                  ValueOf(outcome).message = TransportMessage(k)
                  <=> responses[n].kind = k
             /\ responses[n].kind \in TransportKinds
                => ValueOf(outcome).status_code = None
             /\ ValueOf(outcome).status_code # None
                => responses[n].kind = "http"

\* three timeouts with max_retries = 2: slept 1 and 2 seconds, then raised
\* the timeout error
C14_Witness ==
    /\ max_retries = 2
    /\ Len(responses) = 3
    /\ \A i \in 1..3 : responses[i].kind = "Timeout"
    /\ cliPc = "raised"
    /\ ValueOf(outcome).message = "Request timeout after all retries"
    /\ Len(sleeps) = 2

\* ------------------------------------------------------------------------
\* JobStore (FirebaseService), the batch download orchestrator
\* (tasks/meeting_tasks.py download_meetings_job) and the stuck-job monitor
\* (tasks/job_task.py monitor_stuck_jobs).  utcnow is in hours.
\* ------------------------------------------------------------------------
JobIds == {"j1"}

\* the job the orchestrator task was dispatched for
job_id == "j1"

\* firebase_service.create_job(job.dict()) of a new Job
NewJobDoc ==
    [ status |-> "pending", created_at |-> Some(0), started_at |-> None,
      completed_at |-> None, progress |-> None, result |-> None, errors |-> <<>> ]

\* firebase_service.update_job_status(job_id, status, **kwargs): a partial
\* update of the stored document: status and every field of kwargs are
\* overwritten or added, the other fields are kept (last write wins)
update_job_status(st, id, status, kwargs) ==
    [ st EXCEPT ![id] =
        [ f \in DOMAIN st[id] \cup DOMAIN kwargs |->
            IF f = "status" THEN status
            ELSE IF f \in DOMAIN kwargs THEN kwargs[f]
            ELSE st[id][f] ] ]

\* firebase_service.get_jobs(status=...): the documents with that status
get_jobs(st, status) ==
    { id \in DOMAIN st : st[id].status = status }

ErrorEntry(error_code) == [ error_code |-> error_code ]

\* the TLDVAPIError instances get_all_meetings_batch can let through: what
\* _make_request raises for a response, and for an exhausted timeout
ApiErrors ==
    { _raise_api_error(Http(404, "json", "absent")),
      _raise_api_error(Http(503, "text", "absent")),
      TLDVAPIError("Request timeout after all retries", None, "empty") }

ApiErrorEntry_NoCode(e) ==
    [ error_code |-> "TLDV_API_ERROR", message |-> e.message, status_code |-> None ]

\* the entry the `except TLDVAPIError` handler writes: error_code,
\* message = str(e), status_code = e.status_code
ApiErrorEntry(e) ==
    [ error_code |-> "TLDV_API_ERROR", message |-> e.message,
      status_code |-> e.status_code ]

\* what a handler of the task caught: the kind of the exception and, for a
\* TLDVAPIError, the exception
Caught(kind, e) == Some([ kind |-> kind, error |-> e ])

Countdown_Flat(i) == 2

\* download_single_meeting.apply_async(..., countdown=i * 2)
Countdown(i) == i * 2

\* download_meetings_job: max_retries of the task decorator
OrchMaxRetries == 3

\* MeetingFilters.limit: the page size of the listing (2 in the model)
PageLimit == 2

\* total_pages as the provider reports it: at least one page
TotalPages(n) == IF n = 0 THEN 1 ELSE (n + PageLimit - 1) \div PageLimit

Min(a, b) == IF a < b THEN a ELSE b

ReaperCeilings == {0, 2}      \* max_runtime_hours of a sweep; the default is 2

InitPipeline ==
    /\ store = [ id \in JobIds |-> NewJobDoc ]
    /\ filters_dict \in {"valid", "invalid"}
    /\ provider \in 0..MaxItems
    /\ orchPc = "queued"
    /\ orchRetries = 0
    /\ progress = None
    /\ fetched = 0
    /\ page = 0
    /\ idx = 0
    /\ counters = [ processed_meetings |-> 0, failed_meetings |-> 0, errors |-> <<>> ]
    /\ dispatched = <<>>
    /\ lastError = None
    /\ orchRuns = 0
    /\ reapPc = "idle"
    /\ running_jobs = <<>>
    /\ cutoff_time = 0
    /\ reaped = {}
    /\ InitCleanupIdle
    /\ InitJobIdle
    /\ InitLimiterIdle
    /\ InitWorkersIdle
    /\ InitClientIdle

OtherVars == <<job, lastCall, limVars, wrkVars, cliVars, cleanVars>>

HandleApiError_Silent(e) ==
    /\ orchPc' = "raised"
    /\ lastError' = Caught("TLDVAPIError", Some(e))
    /\ UNCHANGED <<store, orchRetries>>

\* the `except TLDVAPIError` handler: mark the job failed, re-raise
HandleApiError(e) ==
    /\ store' = update_job_status(store, job_id, "failed",
                    [ completed_at |-> Some(utcnow),
                      errors |-> << ApiErrorEntry(e) >> ])
    /\ orchPc' = "raised"
    /\ lastError' = Caught("TLDVAPIError", Some(e))
    /\ UNCHANGED orchRetries

HandleException_Eager ==
    /\ lastError' = Caught("Exception", None)
    /\ IF orchRetries <= OrchMaxRetries
       THEN /\ orchPc' = "queued"
            /\ orchRetries' = orchRetries + 1
            /\ UNCHANGED store
       ELSE /\ store' = update_job_status(store, job_id, "failed",
                            [ completed_at |-> Some(utcnow),
                              errors |-> << ErrorEntry("UNEXPECTED_ERROR") >> ])
            /\ orchPc' = "raised"
            /\ UNCHANGED orchRetries

\* the `except Exception` handler: self.retry() while retries remain,
\* otherwise mark the job failed and re-raise
HandleException ==
    /\ lastError' = Caught("Exception", None)
    /\ IF orchRetries < OrchMaxRetries
       THEN /\ orchPc' = "queued"
            /\ orchRetries' = orchRetries + 1
            /\ UNCHANGED store
       ELSE /\ store' = update_job_status(store, job_id, "failed",
                            [ completed_at |-> Some(utcnow),
                              errors |-> << ErrorEntry("UNEXPECTED_ERROR") >> ])
            /\ orchPc' = "raised"
            /\ UNCHANGED orchRetries

\* the task starts (or starts again after self.retry()): status running
OrchStart ==
    /\ orchPc = "queued"
    /\ store' = update_job_status(store, job_id, "running",
                                   [ started_at |-> Some(utcnow) ])
    /\ orchPc' = "started"
    /\ progress' = None
    /\ fetched' = 0
    /\ page' = 0
    /\ idx' = 0
    /\ counters' = [ processed_meetings |-> 0, failed_meetings |-> 0, errors |-> <<>> ]
    /\ orchRuns' = orchRuns + 1
    /\ UNCHANGED <<filters_dict, provider, orchRetries, dispatched, lastError>>
    /\ UNCHANGED <<reapVars, utcnow, OtherVars>>

\* MeetingFilters(**filters_dict), then the first progress write
OrchInitProgress ==
    /\ orchPc = "started"
    /\ IF filters_dict = "invalid"
       THEN /\ HandleException
            /\ UNCHANGED progress
       ELSE /\ progress' = Some(JobProgress("Fetching meetings list", 4))
            /\ store' = update_job_status(store, job_id, "running",
                                           [ progress |-> progress' ])
            /\ orchPc' = "paging"
            /\ UNCHANGED <<orchRetries, lastError>>
    /\ UNCHANGED <<filters_dict, provider, fetched, page, idx, counters, dispatched,
                   orchRuns>>
    /\ UNCHANGED <<reapVars, utcnow, OtherVars>>

progress_callback_Total(p) ==
    [ p EXCEPT !.current_step = "Fetching meetings (page)",
               !.total_items = Some(0),
               !.processed_items = 0 ]

\* progress_callback(page, total_pages, meetings): all_meetings of the task
\* is never appended to, so len(all_meetings) is 0
progress_callback(p) ==
    [ p EXCEPT !.current_step = "Fetching meetings (page)",
               !.total_items = None,
               !.processed_items = 0 ]

\* get_all_meetings_batch: one page of the listing, then the callback; the
\* provider request may raise TLDVAPIError, anything else may raise Exception
OrchFetchPage ==
    /\ orchPc = "paging"
    /\ \E r \in {"ok", "api_error", "exception"}, e \in ApiErrors :
        IF r = "ok"
        THEN /\ fetched' = Min(fetched + PageLimit, provider)
             /\ page' = page + 1
             /\ progress' = Some(progress_callback(ValueOf(progress)))
             /\ store' = update_job_status(store, job_id, "running",
                                            [ progress |-> progress' ])
             /\ orchPc' = IF page' = TotalPages(provider) THEN "fetched" ELSE "paging"
             /\ UNCHANGED <<orchRetries, lastError>>
        ELSE /\ IF r = "api_error" THEN HandleApiError(e) ELSE HandleException
             /\ UNCHANGED <<fetched, page, progress>>
    /\ UNCHANGED <<filters_dict, provider, idx, counters, dispatched, orchRuns>>
    /\ UNCHANGED <<reapVars, utcnow, OtherVars>>

EmptyResult_One ==
    [ total_meetings |-> 1, processed_meetings |-> 0, failed_meetings |-> 0,
      message |-> "No meetings found matching the criteria" ]

\* the result of a job whose listing is empty
EmptyResult ==
    [ total_meetings |-> 0, processed_meetings |-> 0, failed_meetings |-> 0,
      message |-> "No meetings found matching the criteria" ]

\* `if not meetings`: complete the job with the empty result
OrchEmpty ==
    /\ orchPc = "fetched"
    /\ fetched = 0
    /\ store' = update_job_status(store, job_id, "completed",
                    [ completed_at |-> Some(utcnow),
                      result |-> Some(EmptyResult) ])
    /\ orchPc' = "done"
    /\ UNCHANGED <<filters_dict, provider, orchRetries, progress, fetched, page, idx,
                   counters, dispatched, lastError, orchRuns>>
    /\ UNCHANGED <<reapVars, utcnow, OtherVars>>

\* step 2: the total is known
OrchTotals ==
    /\ orchPc = "fetched"
    /\ fetched > 0
    /\ progress' = Some([ ValueOf(progress) EXCEPT !.completed_steps = 1,
                                                    !.current_step = "Processing meetings",
                                                    !.total_items = Some(fetched),
                                                    !.processed_items = 0 ])
    /\ store' = update_job_status(store, job_id, "running", [ progress |-> progress' ])
    /\ orchPc' = "dispatch"
    /\ UNCHANGED <<filters_dict, provider, orchRetries, fetched, page, idx, counters,
                   dispatched, lastError, orchRuns>>
    /\ UNCHANGED <<reapVars, utcnow, OtherVars>>

OrchDispatch_Uncounted ==
    /\ orchPc = "dispatch"
    /\ idx < fetched
    /\ progress' = Some([ ValueOf(progress) EXCEPT !.current_step = "Processing meeting",
                                                    !.current_item = Some(idx + 1),
                                                    !.processed_items = idx ])
    /\ store' = update_job_status(store, job_id, "running", [ progress |-> progress' ])
    /\ \E queued \in BOOLEAN :
        IF queued
        THEN /\ dispatched' = Append(dispatched, [ meeting |-> idx + 1,
                                                    countdown |-> Countdown(idx) ])
             /\ counters' = [ counters EXCEPT !.processed_meetings = @ + 1 ]
        ELSE /\ counters' = [ counters EXCEPT !.errors = Append(@, idx + 1) ]
             /\ UNCHANGED dispatched
    /\ idx' = idx + 1
    /\ UNCHANGED <<filters_dict, provider, orchPc, orchRetries, fetched, page,
                   lastError, orchRuns>>
    /\ UNCHANGED <<reapVars, utcnow, OtherVars>>

\* one iteration of the loop over the meetings: the progress write, then
\* download_single_meeting.apply_async(countdown=i * 2), which may raise
OrchDispatch ==
    /\ orchPc = "dispatch"
    /\ idx < fetched
    /\ progress' = Some([ ValueOf(progress) EXCEPT !.current_step = "Processing meeting",
                                                    !.current_item = Some(idx + 1),
                                                    !.processed_items = idx ])
    /\ store' = update_job_status(store, job_id, "running", [ progress |-> progress' ])
    /\ \E queued \in BOOLEAN :
        IF queued
        THEN /\ dispatched' = Append(dispatched, [ meeting |-> idx + 1,
                                                    countdown |-> Countdown(idx) ])
             /\ counters' = [ counters EXCEPT !.processed_meetings = @ + 1 ]
        ELSE /\ counters' = [ counters EXCEPT !.failed_meetings = @ + 1,
                                               !.errors = Append(@, idx + 1) ]
             /\ UNCHANGED dispatched
    /\ idx' = idx + 1
    /\ UNCHANGED <<filters_dict, provider, orchPc, orchRetries, fetched, page,
                   lastError, orchRuns>>
    /\ UNCHANGED <<reapVars, utcnow, OtherVars>>

OrchComplete_Early ==
    /\ orchPc = "dispatch"
    /\ idx <= fetched
    /\ progress' = Some([ ValueOf(progress) EXCEPT !.completed_steps = 4,
                                                    !.current_step = "Finalizing",
                                                    !.processed_items = fetched ])
    /\ store' = update_job_status(store, job_id, "completed",
                    [ completed_at |-> Some(utcnow),
                      result |-> Some([ total_meetings |-> fetched,
                                        processed_meetings |-> counters.processed_meetings,
                                        failed_meetings |-> counters.failed_meetings,
                                        errors |-> counters.errors ]),
                      progress |-> progress' ])
    /\ orchPc' = "done"
    /\ UNCHANGED <<filters_dict, provider, orchRetries, fetched, page, idx, counters,
                   dispatched, lastError, orchRuns>>
    /\ UNCHANGED <<reapVars, utcnow, OtherVars>>

\* step 4: the completion write
OrchComplete ==
    /\ orchPc = "dispatch"
    /\ idx = fetched
    /\ progress' = Some([ ValueOf(progress) EXCEPT !.completed_steps = 4,
                                                    !.current_step = "Finalizing",
                                                    !.processed_items = fetched ])
    /\ store' = update_job_status(store, job_id, "completed",
                    [ completed_at |-> Some(utcnow),
                      result |-> Some([ total_meetings |-> fetched,
                                        processed_meetings |-> counters.processed_meetings,
                                        failed_meetings |-> counters.failed_meetings,
                                        errors |-> counters.errors ]),
                      progress |-> progress' ])
    /\ orchPc' = "done"
    /\ UNCHANGED <<filters_dict, provider, orchRetries, fetched, page, idx, counters,
                   dispatched, lastError, orchRuns>>
    /\ UNCHANGED <<reapVars, utcnow, OtherVars>>

\* Job(**job_data): the validator of completed_at raises when completed_at
\* is before started_at
Validates(doc) ==
    ~ ( /\ doc.completed_at # None
        /\ doc.started_at # None
        /\ ValueOf(doc.completed_at) < ValueOf(doc.started_at) )

\* monitor_stuck_jobs(max_runtime_hours): the query for the running jobs
ReaperScan ==
    /\ reapPc = "idle"
    /\ \E max_runtime_hours \in ReaperCeilings :
        cutoff_time' = utcnow - max_runtime_hours
    /\ \E order \in [ 1..Cardinality(get_jobs(store, "running")) ->
                         get_jobs(store, "running") ] :
        /\ \A a, b \in DOMAIN order : a # b => order[a] # order[b]
        /\ running_jobs' = [ k \in DOMAIN order |->
                                [ id |-> order[k],
                                  started_at |-> store[order[k]].started_at,
                                  completed_at |-> store[order[k]].completed_at ] ]
    /\ reapPc' = "loop"
    /\ UNCHANGED <<store, orchVars, reaped, utcnow, OtherVars>>

\* monitor_stuck_jobs: one iteration of the loop over the documents read;
\* a document that Job(**job_data) rejects is logged and skipped
ReaperCheck ==
    /\ reapPc = "loop"
    /\ running_jobs # <<>>
    /\ LET j == Head(running_jobs)
       IN IF /\ Validates(j)
             /\ j.started_at # None
             /\ ValueOf(j.started_at) < cutoff_time
          THEN /\ store' = update_job_status(store, j.id, "failed",
                               [ completed_at |-> Some(utcnow),
                                 errors |-> << ErrorEntry("JOB_TIMEOUT") >> ])
               /\ reaped' = reaped \cup {j.id}
          ELSE UNCHANGED <<store, reaped>>
    /\ running_jobs' = Tail(running_jobs)
    /\ UNCHANGED <<reapPc, cutoff_time, orchVars, utcnow, OtherVars>>

\* monitor_stuck_jobs returns
ReaperDone ==
    /\ reapPc = "loop"
    /\ running_jobs = <<>>
    /\ reapPc' = "idle"
    /\ UNCHANGED <<running_jobs, cutoff_time, reaped, store, orchVars, utcnow, OtherVars>>

PipeTick ==
    /\ utcnow < MaxHours
    /\ utcnow' = utcnow + 1
    /\ UNCHANGED <<pipeVars, OtherVars>>

NextPipeline ==
    \/ OrchStart
    \/ OrchInitProgress
    \/ OrchFetchPage
    \/ OrchEmpty
    \/ OrchTotals
    \/ OrchDispatch
    \/ OrchComplete
    \/ ReaperScan
    \/ ReaperCheck
    \/ ReaperDone
    \/ PipeTick

SpecPipeline == InitPipeline /\ [][NextPipeline]_vars

\* C5: once the reaper has written failed, no later write of the
\* orchestrator changes the stored status to running or completed.
C5_ReapedStaysFailed ==
    [][ ( job_id \in reaped /\ store[job_id].status = "failed" )
        => store'[job_id].status \notin {"running", "completed"} ]_vars

\* the task body, from its start to its return or raise
OrchNext ==
    \/ OrchStart
    \/ OrchInitProgress
    \/ OrchFetchPage
    \/ OrchEmpty
    \/ OrchTotals
    \/ OrchDispatch
    \/ OrchComplete

\* The worker runs a task that is queued or has started, and runs it again
\* after self.retry(): the steps of the task are weakly fair.  The monitor and
\* the clock are not.
SpecPipelineFair == SpecPipeline /\ WF_vars(OrchNext)

StoredStatus == store[job_id].status

\* C15: when the listing is empty the next step of the task writes status
\* completed with a result whose total, processed and failed counts are 0,
\* dispatches no item task and leaves the stored errors as they were; a job
\* whose provider holds no item never has an item task dispatched.
C15_EmptyCompletes ==
    /\ [][ ( orchPc = "fetched" /\ fetched = 0 /\ orchPc' # orchPc )
           => /\ orchPc' = "done"
              /\ store'[job_id].status = "completed"
              /\ store'[job_id].result # None
              /\ ValueOf(store'[job_id].result).total_meetings = 0
              /\ ValueOf(store'[job_id].result).processed_meetings = 0
              /\ ValueOf(store'[job_id].result).failed_meetings = 0
              /\ store'[job_id].errors = store[job_id].errors
              /\ dispatched' = dispatched ]_vars
    /\ []( ( orchPc # "idle" /\ provider = 0 ) => dispatched = <<>> )

\* an empty listing: completed with the empty result, nothing dispatched
C15_Witness ==
    /\ orchPc = "done"
    /\ provider = 0
    /\ StoredStatus = "completed"
    /\ ValueOf(store[job_id].result).total_meetings = 0
    /\ store[job_id].errors = <<>>
    /\ dispatched = <<>>

\* nothing has failed: no handler of the task has run, every apply_async
\* went through, and the monitor has not marked the job
NoFailure ==
    /\ lastError = None
    /\ reaped = {}
    /\ counters.failed_meetings = 0

\* C16: with n > 0 items over the pages and nothing failing, the stored
\* status changes only pending -> running and running -> completed; when the
\* task has returned the status is completed, progress.total_items is n, and
\* exactly n item tasks were dispatched, the i-th for the i-th item, with
\* strictly increasing countdowns.
C16_ItemsDispatched ==
    /\ []( ( orchPc = "done" /\ provider > 0 /\ NoFailure )
           => /\ StoredStatus = "completed"
              /\ ValueOf(store[job_id].progress).total_items = Some(provider)
              /\ Len(dispatched) = provider
              /\ \A i \in 1..Len(dispatched) : dispatched[i].meeting = i
              /\ \A i, j \in 1..Len(dispatched) :
                    i < j => dispatched[i].countdown < dispatched[j].countdown )
    /\ [][ ( orchPc # "idle" /\ lastError' = None /\ reaped' = {}
             /\ store'[job_id].status # store[job_id].status )
           => << store[job_id].status, store'[job_id].status >>
                 \in { <<"pending", "running">>, <<"running", "completed">> } ]_vars

\* 3 items over 2 pages (2 + 1): completed, 3 item tasks dispatched
C16_Witness ==
    /\ orchPc = "done"
    /\ provider = 3
    /\ page = 2
    /\ NoFailure
    /\ StoredStatus = "completed"
    /\ Len(dispatched) = 3
    /\ dispatched[3].countdown = 4

\* a step in which the `except TLDVAPIError` handler ran
ApiErrorStep ==
    /\ orchPc \in {"started", "paging"}
    /\ orchPc' \in {"queued", "raised"}
    /\ ValueOf(lastError').kind = "TLDVAPIError"

\* a step in which the `except Exception` handler ran
ExceptionStep ==
    /\ orchPc \in {"started", "paging"}
    /\ orchPc' \in {"queued", "raised"}
    /\ ValueOf(lastError').kind = "Exception"

\* C17: when the listing raises a provider error the task writes status
\* failed with one error entry that carries the code TLDV_API_ERROR and the
\* status code and message of that error, does not re-schedule itself (the
\* retry count is unchanged and the task has raised for good), and no item
\* task has been dispatched.
C17_ApiErrorFailsJob ==
    /\ [][ ApiErrorStep
           => LET e == ValueOf(ValueOf(lastError').error)
              IN /\ store'[job_id].status = "failed"
                 /\ Len(store'[job_id].errors) = 1
                 /\ store'[job_id].errors[1].error_code = "TLDV_API_ERROR"
                 /\ store'[job_id].errors[1].status_code = e.status_code
                 /\ store'[job_id].errors[1].message = e.message
                 /\ orchPc' = "raised"
                 /\ orchRetries' = orchRetries
                 /\ dispatched' = dispatched ]_vars
    /\ []( ( lastError # None /\ ValueOf(lastError).kind = "TLDVAPIError" )
           => /\ orchPc = "raised"
              /\ dispatched = <<>> )

\* the listing answered 404: failed with the entry carrying 404
C17_Witness ==
    /\ orchPc = "raised"
    /\ lastError # None
    /\ ValueOf(lastError).kind = "TLDVAPIError"
    /\ StoredStatus = "failed"
    /\ Len(store[job_id].errors) = 1
    /\ store[job_id].errors[1].error_code = "TLDV_API_ERROR"
    /\ store[job_id].errors[1].status_code = Some(404)
    /\ orchRetries = 0

\* C18: the task re-schedules itself at most OrchMaxRetries (3) times, so
\* its body starts at most 4 times; a step that catches an unexpected
\* exception with retries left re-schedules the task and writes nothing, one
\* with the retries used up writes status failed with the UNEXPECTED_ERROR
\* entry and raises; the UNEXPECTED_ERROR entry is written by no other step.
C18_RetryBound ==
    /\ []( orchRetries <= OrchMaxRetries /\ orchRuns <= OrchMaxRetries + 1 )
    /\ [][ ExceptionStep
           => IF orchRetries < OrchMaxRetries
              THEN /\ orchPc' = "queued"
                   /\ orchRetries' = orchRetries + 1
                   /\ store' = store
              ELSE /\ orchPc' = "raised"
                   /\ store'[job_id].status = "failed"
                   /\ store'[job_id].errors = << ErrorEntry("UNEXPECTED_ERROR") >> ]_vars
    /\ [][ ( /\ orchPc # "idle"
             /\ store'[job_id].errors # store[job_id].errors
             /\ store'[job_id].errors = << ErrorEntry("UNEXPECTED_ERROR") >> )
           => ( ExceptionStep /\ orchRetries = OrchMaxRetries ) ]_vars

\* the exception came back on each of the four runs: failed
C18_Witness ==
    /\ orchPc = "raised"
    /\ orchRuns = 4
    /\ orchRetries = 3
    /\ StoredStatus = "failed"
    /\ store[job_id].errors = << ErrorEntry("UNEXPECTED_ERROR") >>

ItemMaxRetries_Three == OrchMaxRetries

\* download_single_meeting: max_retries of the task decorator
ItemMaxRetries == 2

ItemStepNames == <<"transcript", "highlights", "video">>

\* How a step can go: the fetch returned something and it was saved
\* ("saved"); the fetch returned nothing ("none"); the fetch or the save of
\* what it returned raised ("raise"); the save went through, the flag was
\* set, and the update of the meeting document after it raised ("raise_late").
StepOutcomes == {"saved", "none", "raise", "raise_late"}

Flag(step) ==
    IF step = "transcript" THEN "transcript_saved"
    ELSE IF step = "highlights" THEN "highlights_saved"
    ELSE "video_uploaded"

ErrorLabel(step) ==
    IF step = "transcript" THEN "Transcript error"
    ELSE IF step = "highlights" THEN "Highlights error"
    ELSE "Video upload error"

\* result = {...} after save_meeting
NewItemResult ==
    [ transcript_saved |-> FALSE, highlights_saved |-> FALSE, video_uploaded |-> FALSE,
      errors |-> <<>> ]

\* the dict returned when save_meeting failed and the retries are used up
FailedItemResult ==
    [ transcript_saved |-> FALSE, highlights_saved |-> FALSE, video_uploaded |-> FALSE,
      errors |-> << "Processing failed after retries" >> ]

AfterStep_Drop(result, step, o) ==
    [ result EXCEPT ![Flag(step)] = o \in {"saved", "raise_late"} ]

\* one try block: the flag is set once the save went through, an exception
\* anywhere in the block appends the step's message to result['errors']
AfterStep(result, step, o) ==
    [ result EXCEPT ![Flag(step)] = o \in {"saved", "raise_late"},
                    !.errors = IF o \in {"raise", "raise_late"}
                               THEN Append(@, ErrorLabel(step))
                               ELSE @ ]

\* The stored status of the parent job while one of its item tasks runs: the
\* orchestrator is still dispatching, has completed the job, or the job was
\* marked failed.  The parent task is at some retry count of its own.
ParentStatuses == {"running", "completed", "failed"}

InitItem ==
    /\ itemPc = "queued"
    /\ itemRetries = 0
    /\ meeting_url \in BOOLEAN
    /\ itemResult = None
    /\ itemSteps = <<>>
    /\ taskPc = [ t \in Tasks |-> "queued" ]
    /\ taskLimiter = [ t \in Tasks |-> <<>> ]
    /\ taskWait = [ t \in Tasks |-> None ]
    /\ InitJobIdle
    /\ InitLimiterIdle
    /\ InitClientIdle
    /\ \E s \in ParentStatuses :
          store = [ id \in JobIds |->
                      [ NewJobDoc EXCEPT !.status = s, !.started_at = Some(0) ] ]
    /\ orchRetries \in 0..OrchMaxRetries
    /\ filters_dict = "valid"
    /\ provider = 0
    /\ orchPc = "idle"
    /\ progress = None
    /\ fetched = 0
    /\ page = 0
    /\ idx = 0
    /\ counters = <<>>
    /\ dispatched = <<>>
    /\ lastError = None
    /\ orchRuns = 0
    /\ reapPc = "idle"
    /\ running_jobs = <<>>
    /\ cutoff_time = 0
    /\ reaped = {}
    /\ InitCleanupIdle

ItemFrame == <<taskPc, taskLimiter, taskWait, jobVars, limVars, cliVars, pipeVars>>

ItemStart_FailsJob ==
    /\ itemPc = "queued"
    /\ \E saved \in BOOLEAN :
        IF saved
        THEN /\ itemResult' = Some(NewItemResult)
             /\ itemPc' = "transcript"
             /\ UNCHANGED <<itemRetries, store>>
        ELSE IF itemRetries < ItemMaxRetries
        THEN /\ itemRetries' = itemRetries + 1
             /\ UNCHANGED <<itemPc, itemResult, store>>
        ELSE /\ itemResult' = Some(FailedItemResult)
             /\ itemPc' = "returned"
             /\ store' = update_job_status(store, job_id, "failed",
                             [ errors |-> << ErrorEntry("UNEXPECTED_ERROR") >> ])
             /\ UNCHANGED itemRetries
    /\ UNCHANGED <<meeting_url, itemSteps>>
    /\ UNCHANGED <<taskPc, taskLimiter, taskWait, jobVars, limVars, cliVars, orchVars,
                   reapVars, cleanVars>>

\* the task starts (or starts again after self.retry()): save_meeting, which
\* may raise into the outer `except Exception`
ItemStart ==
    /\ itemPc = "queued"
    /\ \E saved \in BOOLEAN :
        IF saved
        THEN /\ itemResult' = Some(NewItemResult)
             /\ itemPc' = "transcript"
             /\ UNCHANGED itemRetries
        ELSE IF itemRetries < ItemMaxRetries
        THEN /\ itemRetries' = itemRetries + 1
             /\ UNCHANGED <<itemPc, itemResult>>
        ELSE /\ itemResult' = Some(FailedItemResult)
             /\ itemPc' = "returned"
             /\ UNCHANGED itemRetries
    /\ UNCHANGED <<meeting_url, itemSteps>>
    /\ UNCHANGED ItemFrame

\* one try block of the task
ItemStep(step, next) ==
    /\ \E o \in StepOutcomes :
        /\ itemResult' = Some(AfterStep(ValueOf(itemResult), step, o))
        /\ itemSteps' = Append(itemSteps, [ step |-> step, outcome |-> o ])
    /\ itemPc' = next
    /\ UNCHANGED <<itemRetries, meeting_url>>
    /\ UNCHANGED ItemFrame

\* the transcript: get_transcript, save_transcript, save_meeting
ItemTranscript ==
    /\ itemPc = "transcript"
    /\ ItemStep("transcript", "highlights")

\* the highlights: get_highlights, save_highlights, save_meeting
ItemHighlights ==
    /\ itemPc = "highlights"
    /\ ItemStep("highlights", "video")

\* `if meeting.url:` the video try block; then return result
ItemVideo ==
    /\ itemPc = "video"
    /\ IF meeting_url
       THEN ItemStep("video", "returned")
       ELSE /\ itemPc' = "returned"
            /\ UNCHANGED <<itemRetries, meeting_url, itemResult, itemSteps>>
            /\ UNCHANGED ItemFrame

NextItem ==
    \/ ItemStart
    \/ ItemTranscript
    \/ ItemHighlights
    \/ ItemVideo

SpecItem == InitItem /\ [][NextItem]_vars

\* the outcome recorded for a step, "skipped" if the step was not attempted
OutcomeOf(step) ==
    IF \E i \in 1..Len(itemSteps) : itemSteps[i].step = step
    THEN itemSteps[CHOOSE i \in 1..Len(itemSteps) : itemSteps[i].step = step].outcome
    ELSE "skipped"

Raised(o) == o \in {"raise", "raise_late"}

\* the messages of the steps that raised, in the order of the steps
ExpectedErrors ==
    LET raisedSteps == SelectSeq(ItemStepNames, LAMBDA st : Raised(OutcomeOf(st)))
    IN [ i \in 1..Len(raisedSteps) |-> ErrorLabel(raisedSteps[i]) ]

\* C20: the task never raises because of a step; once save_meeting went
\* through and the task has returned, the transcript and the highlights
\* steps were both attempted, and the video step too when the meeting has a
\* url, whatever the steps before them did; the errors list holds exactly
\* the messages of the steps that raised; a step whose fetch or save raised
\* has its flag false and a step that saved has its flag true, so
\* transcript raising and highlights saved gives transcript_saved = false and
\* highlights_saved = true.
C20_StepsIndependent ==
    /\ itemPc # "raised"
    /\ ( itemPc = "returned" /\ itemResult # Some(FailedItemResult) )
       => LET res == ValueOf(itemResult)
          IN /\ OutcomeOf("transcript") # "skipped"
             /\ OutcomeOf("highlights") # "skipped"
             /\ meeting_url <=> OutcomeOf("video") # "skipped"
             /\ res.errors = ExpectedErrors
             /\ \A st \in {"transcript", "highlights", "video"} :
                   /\ OutcomeOf(st) = "raise" => res[Flag(st)] = FALSE
                   /\ OutcomeOf(st) = "saved" => res[Flag(st)] = TRUE
             /\ ( OutcomeOf("transcript") = "raise" /\ OutcomeOf("highlights") = "saved" )
                => ( ~res.transcript_saved /\ res.highlights_saved )

\* the transcript raised, the highlights were saved, the task returned
C20_Witness ==
    /\ itemPc = "returned"
    /\ OutcomeOf("transcript") = "raise"
    /\ OutcomeOf("highlights") = "saved"
    /\ ValueOf(itemResult).transcript_saved = FALSE
    /\ ValueOf(itemResult).highlights_saved = TRUE
    /\ ValueOf(itemResult).errors[1] = "Transcript error"

\* a step in which save_meeting raised into the outer `except Exception`
ItemFailedStep ==
    /\ itemPc = "queued"
    /\ itemPc' # "transcript"
    /\ <<itemPc', itemRetries', itemResult'>> # <<itemPc, itemRetries, itemResult>>

C22_ItemLeavesJob ==
    [][ itemVars' # itemVars
        => /\ store'[job_id].status = store[job_id].status
           /\ store'[job_id].errors = store[job_id].errors
           /\ store' = store ]_vars

\* the item used up its retries while the parent job is running: the job is
\* still running and has no error
C22_Witness ==
    /\ itemPc = "returned"
    /\ itemResult = Some(FailedItemResult)
    /\ itemRetries = 2
    /\ store[job_id].status = "running"
    /\ store[job_id].errors = <<>>

\* C23: an iteration of the sweep over a job whose stored document is still
\* the one the sweep read (running, same started_at) marks it failed with
\* the JOB_TIMEOUT entry when its started_at is older than the cutoff
\* (now - maxRuntime at the time of the scan), leaves it as it is otherwise,
\* and changes no other job.
C23_SweepExact ==
    [][ ( reapPc = "loop" /\ running_jobs # <<>> /\ running_jobs' = Tail(running_jobs) )
        => LET j == Head(running_jobs)
               doc == store[j.id]
           IN /\ \A id \in DOMAIN store : id # j.id => store'[id] = store[id]
              /\ ( /\ doc.status = "running"
                   /\ doc.started_at = j.started_at
                   /\ doc.completed_at = j.completed_at )
                 => IF doc.started_at # None /\ ValueOf(doc.started_at) < cutoff_time
                    THEN /\ store'[j.id].status = "failed"
                         /\ store'[j.id].errors = << ErrorEntry("JOB_TIMEOUT") >>
                    ELSE store' = store ]_vars

\* ------------------------------------------------------------------------
\* Maintenance tasks over the JobStore: monitor_stuck_jobs
\* (tasks/job_task.py), cleanup_expired_jobs (tasks/cleanup_tasks.py),
\* cleanup_failed_jobs (tasks/job_task.py) and the beat schedule
\* (celery_config.py).  The jobs in the store have no task alive: a running
\* job is one whose task died without writing to the store.
\* ------------------------------------------------------------------------
MaintJobs == {"j1", "j2"}

\* stored documents of jobs created at hour 0, one per status
MaintDocs ==
    { NewJobDoc,
      [ NewJobDoc EXCEPT !.status = "running", !.started_at = Some(0) ],
      [ NewJobDoc EXCEPT !.status = "completed", !.started_at = Some(0),
                         !.completed_at = Some(0), !.result = Some(EmptyResult) ],
      [ NewJobDoc EXCEPT !.status = "failed", !.started_at = Some(0),
                         !.completed_at = Some(0),
                         !.errors = << ErrorEntry("UNEXPECTED_ERROR") >> ],
      [ NewJobDoc EXCEPT !.status = "cancelled", !.completed_at = Some(0) ] }

\* max_age_days / max_age_hours of a cleanup run, in hours of the model
CleanupCeilings == {0, 2}

\* monitor_stuck_jobs: the default of max_runtime_hours
DefaultMaxRuntimeHours == 2

InitMaintenance ==
    /\ store \in [ MaintJobs -> MaintDocs ]
    /\ filters_dict = "valid"
    /\ provider = 0
    /\ orchPc = "idle"
    /\ orchRetries = 0
    /\ progress = None
    /\ fetched = 0
    /\ page = 0
    /\ idx = 0
    /\ counters = <<>>
    /\ dispatched = <<>>
    /\ lastError = None
    /\ orchRuns = 0
    /\ reapPc = "idle"
    /\ running_jobs = <<>>
    /\ cutoff_time = 0
    /\ reaped = {}
    /\ InitCleanupIdle
    /\ InitJobIdle
    /\ InitLimiterIdle
    /\ InitWorkersIdle
    /\ InitClientIdle

MaintFrame == <<orchVars, reapVars, utcnow, job, lastCall, limVars, wrkVars, cliVars>>

\* the documents get_jobs returned, in some order
Snapshot(ids, order) ==
    [ k \in DOMAIN order |->
        [ id |-> order[k],
          created_at |-> store[order[k]].created_at,
          started_at |-> store[order[k]].started_at,
          completed_at |-> store[order[k]].completed_at ] ]

Orders(ids) ==
    { order \in [ 1..Cardinality(ids) -> ids ] :
        \A a, b \in DOMAIN order : a # b => order[a] # order[b] }

\* cleanup_expired_jobs(max_age_days): the query for the completed jobs
CleanupExpiredScan ==
    /\ cleanPc = "idle"
    /\ \E max_age \in CleanupCeilings : clean_cutoff' = utcnow - max_age
    /\ \E order \in Orders(get_jobs(store, "completed")) :
        clean_jobs' = Snapshot(get_jobs(store, "completed"), order)
    /\ cleanPc' = "expired"
    /\ UNCHANGED <<store, MaintFrame>>

\* cleanup_failed_jobs(max_age_hours): the query for the failed jobs
CleanupFailedScan ==
    /\ cleanPc = "idle"
    /\ \E max_age \in CleanupCeilings : clean_cutoff' = utcnow - max_age
    /\ \E order \in Orders(get_jobs(store, "failed")) :
        clean_jobs' = Snapshot(get_jobs(store, "failed"), order)
    /\ cleanPc' = "failed"
    /\ UNCHANGED <<store, MaintFrame>>

\* one iteration of the loop of the cleanup task that is running:
\* cleanup_expired_jobs archives a job completed before the cutoff,
\* cleanup_failed_jobs marks a job created before the cutoff as cleaned
CleanupCheck ==
    /\ cleanPc \in {"expired", "failed"}
    /\ clean_jobs # <<>>
    /\ LET j == Head(clean_jobs)
       IN IF cleanPc = "expired"
          THEN IF /\ Validates(j)
                  /\ j.completed_at # None
                  /\ ValueOf(j.completed_at) < clean_cutoff
               THEN store' = update_job_status(store, j.id, "archived",
                                  [ archived_at |-> Some(utcnow) ])
               ELSE UNCHANGED store
          ELSE IF /\ Validates(j)
                  /\ j.created_at # None
                  /\ ValueOf(j.created_at) < clean_cutoff
               THEN store' = update_job_status(store, j.id, "cleaned",
                                  [ cleaned_at |-> Some(utcnow) ])
               ELSE UNCHANGED store
    /\ clean_jobs' = Tail(clean_jobs)
    /\ UNCHANGED <<cleanPc, clean_cutoff, MaintFrame>>

\* the cleanup task returns
CleanupDone ==
    /\ cleanPc \in {"expired", "failed"}
    /\ clean_jobs = <<>>
    /\ cleanPc' = "idle"
    /\ UNCHANGED <<clean_jobs, clean_cutoff, store, MaintFrame>>

NextMaintenance ==
    \/ ReaperScan
    \/ ReaperCheck
    \/ ReaperDone
    \/ CleanupExpiredScan
    \/ CleanupFailedScan
    \/ CleanupCheck
    \/ CleanupDone
    \/ PipeTick

SpecMaintenance == InitMaintenance /\ [][NextMaintenance]_vars

\* beat_schedule starts cleanup_expired_jobs every hour (and
\* update_job_statistics, which only reads); a worker runs a task that has
\* started to its end; time passes.  Nothing in the schedule starts
\* monitor_stuck_jobs or cleanup_failed_jobs.
SpecMaintenanceFair ==
    /\ SpecMaintenance
    /\ WF_vars(CleanupExpiredScan)
    /\ WF_vars(CleanupCheck \/ CleanupDone)
    /\ WF_vars(ReaperCheck \/ ReaperDone)
    /\ WF_vars(PipeTick)

\* a job left running whose runtime exceeds the default ceiling
Stuck(id) ==
    /\ store[id].status = "running"
    /\ store[id].started_at # None
    /\ ValueOf(store[id].started_at) + DefaultMaxRuntimeHours < utcnow

\* C24: with the periodic schedule running, a job left in running by a task
\* that died is eventually marked failed once its runtime exceeds the ceiling.
C24_StuckEventuallyFailed ==
    \A id \in MaintJobs : Stuck(id) ~> ( store[id].status = "failed" )

\* C30: the stored status of every job is one of pending, running,
\* completed, failed, cancelled.
C30_StatusInEnum ==
    \A id \in DOMAIN store : store[id].status \in JobStatus

\* ------------------------------------------------------------------------
\* Cancellation: the stored status of a job that has not finished is set to
\* cancelled through the update_job_status task (tasks/job_task.py) while
\* download_meetings_job may be running for it.
\* ------------------------------------------------------------------------
\* update_job_status.delay(job_id, 'cancelled')
CancelJob ==
    /\ store[job_id].status \in {"pending", "running"}
    /\ store' = update_job_status(store, job_id, "cancelled", <<>>)
    /\ UNCHANGED <<orchVars, reapVars, utcnow, OtherVars>>

NextCancel ==
    \/ OrchStart
    \/ OrchInitProgress
    \/ OrchFetchPage
    \/ OrchEmpty
    \/ OrchTotals
    \/ OrchDispatch
    \/ OrchComplete
    \/ CancelJob
    \/ PipeTick

SpecCancel == InitPipeline /\ [][NextCancel]_vars

\* C25: once the stored status of the job is cancelled it stays cancelled
\* and the orchestrator dispatches no further item task for the job.
C25_CancelStops ==
    [][ store[job_id].status = "cancelled"
        => /\ store'[job_id].status = "cancelled"
           /\ dispatched' = dispatched ]_vars

\* C26: a job whose filters are invalid never starts: its stored status is
\* never running, no provider page is requested and no item is dispatched.
C26_InvalidNeverStarts ==
    filters_dict = "invalid"
        => /\ store[job_id].status # "running"
           /\ page = 0
           /\ dispatched = <<>>

\* C27: the stored errors list of the job is append-only: every step leaves
\* the previous list as a prefix of the new one.
C27_ErrorsAppendOnly ==
    [][ LET old == store[job_id].errors
            new == store'[job_id].errors
        IN  /\ Len(old) <= Len(new)
            /\ SubSeq(new, 1, Len(old)) = old ]_vars

\* C28: the result of a Job is set once: after it is set no later call
\* (complete again, retry, fail, cancel, start) replaces or clears it.
C28_ResultSetOnce ==
    [][ job.result # None => job'.result = job.result ]_vars

\* C29: whenever started_at and completed_at of a Job are both set,
\* completed_at is not before started_at.
C29_CompletedNotBeforeStarted ==
    (job.started_at # None /\ job.completed_at # None)
        => ValueOf(job.completed_at) >= ValueOf(job.started_at)

\* C31: when wait_if_needed() has to wait, the timestamp it records is the
\* time at which the call returns, not the time at which the call began.
C31_RecordsAfterSleep ==
    [][ ( /\ Len(released') = Len(released) + 1
          /\ released'[Len(released')].slept > 0 )
        => request_times'[Len(request_times')]
               = released'[Len(released')].returned_at ]_vars

\* the progress document stored for the job
StoredProgress == ValueOf(store[job_id].progress)

\* the orchestrator writes progress while pages are still being fetched
PagingWrite ==
    \/ orchPc = "started" /\ orchPc' = "paging"
    \/ orchPc = "paging" /\ page' = page + 1

\* C32: every progress write made while pages are being fetched stores
\* total_items = null; total_items is set to the number of items only after
\* the last page, and keeps that value for the rest of the run.
C32_TotalUnknownWhilePaging ==
    /\ [][ PagingWrite
           => /\ store'[job_id].progress = progress'
              /\ ValueOf(store'[job_id].progress).total_items = None ]_vars
    /\ [][ (orchPc = "fetched" /\ orchPc' = "dispatch")
           => /\ page = TotalPages(provider)
              /\ fetched = provider
              /\ ValueOf(store'[job_id].progress).total_items = Some(fetched) ]_vars
    /\ [][ (orchPc = "dispatch" /\ orchRuns' = orchRuns)
           => /\ StoredProgress.total_items = Some(fetched)
              /\ ValueOf(store'[job_id].progress).total_items = Some(fetched) ]_vars

\* A listing of more than one page has been fetched and every item of it
\* dispatched, with the total stored.
C32_Witness ==
    /\ orchPc = "done"
    /\ page > 1
    /\ idx = fetched
    /\ store[job_id].progress # None
    /\ StoredProgress.total_items = Some(fetched)

\* C33: the progress write after each page stores processed_items = the
\* number of items fetched so far.
C33_PartialCount ==
    [][ (orchPc = "paging" /\ page' = page + 1)
        => ValueOf(store'[job_id].progress).processed_items = fetched' ]_vars

\* C36: _make_request always terminates: whatever the provider answers, it
\* issues at most max_retries + 1 HTTP calls and then has returned a
\* response or raised an error.
C36_RequestTerminates ==
    /\ [](Len(responses) <= max_retries + 1)
    /\ [](cliPc \in {"returned", "raised"} => outcome # None)
    /\ (cliPc = "loop") ~> (cliPc \in {"returned", "raised"})

\* Every one of the max_retries + 1 calls was answered 429 and the call has
\* ended.
C36_Witness ==
    /\ max_retries > 0
    /\ cliPc = "raised"
    /\ Len(responses) = max_retries + 1
    /\ \A i \in 1..Len(responses) : IsRateLimited(responses[i])

\* monitor_stuck_jobs writes failed for the job at the head of its list
ReaperWrite ==
    /\ reapPc = "loop"
    /\ running_jobs # <<>>
    /\ running_jobs' = Tail(running_jobs)
    /\ store' # store

\* C40: the reaper force-fails only a job whose stored status is running at
\* the moment of the write; a job completed between the reaper's scan and
\* its write is not turned into failed.
C40_ReaperWritesRunningOnly ==
    [][ ReaperWrite
        => store[Head(running_jobs).id].status = "running" ]_vars

\* ------------------------------------------------------------------------
\* update_job_progress (tasks/job_task.py): the progress task, applied to
\* stored jobs in any status.
\* ------------------------------------------------------------------------
\* progress_data of a call
ProgressData ==
    { JobProgress("Processing meetings", 4),
      [ JobProgress("Processing meetings", 4) EXCEPT !.processed_items = 1 ] }

\* update_job_progress(job_id, progress_data)
UpdateJobProgress ==
    \E id \in MaintJobs, progress_data \in ProgressData :
        /\ store' = update_job_status(store, id, "running",
                        [ progress |-> Some(progress_data),
                          updated_at |-> Some(utcnow) ])
        /\ UNCHANGED <<orchVars, reapVars, utcnow, OtherVars>>

NextProgress ==
    \/ UpdateJobProgress
    \/ PipeTick

SpecProgress == InitMaintenance /\ [][NextProgress]_vars

\* C39: update_job_progress leaves the stored status of the job unchanged;
\* a completed, failed or cancelled job is not moved back to running.
C39_ProgressKeepsStatus ==
    [][ \A id \in MaintJobs :
          store'[id] # store[id] => store'[id].status = store[id].status ]_vars

\* ------------------------------------------------------------------------
\* Fan-out: the orchestrator together with the item task it dispatched
\* first, run by another worker.
\* ------------------------------------------------------------------------
\* a worker takes the task that apply_async queued for the first dispatched
\* meeting; meeting_dict carries the url of the meeting or none
ItemDeliver ==
    /\ itemPc = "idle"
    /\ Len(dispatched) > 0
    /\ itemPc' = "queued"
    /\ meeting_url' \in BOOLEAN
    /\ UNCHANGED <<itemRetries, itemResult, itemSteps>>
    /\ UNCHANGED ItemFrame

NextFanout ==
    \/ OrchStart
    \/ OrchInitProgress
    \/ OrchFetchPage
    \/ OrchEmpty
    \/ OrchTotals
    \/ OrchDispatch
    \/ OrchComplete
    \/ ItemDeliver
    \/ ItemStart
    \/ ItemTranscript
    \/ ItemHighlights
    \/ ItemVideo

SpecFanout == InitPipeline /\ [][NextFanout]_vars

\* the orchestrator writes status completed
CompletionWrite ==
    /\ store[job_id].status # "completed"
    /\ store'[job_id].status = "completed"

\* C34: the orchestrator writes completed only when it has attempted the
\* dispatch of every item of the list, each attempt counted as processed or
\* failed, and the write does not depend on what the item tasks have done.
C34_CompletesAfterDispatch ==
    [][ CompletionWrite
        => /\ idx = fetched
           /\ fetched = provider
           /\ counters.processed_meetings + counters.failed_meetings = fetched
           /\ Len(dispatched) = counters.processed_meetings
           /\ UNCHANGED itemVars ]_vars

\* The job is completed while the first item task it dispatched is still
\* running.
C34_Witness ==
    /\ StoredStatus = "completed"
    /\ provider > 1
    /\ Len(dispatched) = provider
    /\ itemPc \in {"queued", "transcript", "highlights", "video"}

\* an item task returns after its last step: the meeting was saved
ItemReturns ==
    /\ itemPc = "video"
    /\ itemPc' = "returned"

\* C35: an item task that finishes updates the progress of its parent job
\* in the store, adding itself to processed_items.
C35_ItemUpdatesProgress ==
    [][ ItemReturns
        => /\ store'[job_id].progress # store[job_id].progress
           /\ ValueOf(store'[job_id].progress).processed_items
                 = StoredProgress.processed_items + 1 ]_vars

\* ------------------------------------------------------------------------
\* The orchestrator with a store whose completion write can fail.
\* ------------------------------------------------------------------------
\* step 4 when firebase_service.update_job_status(..., COMPLETED, ...) raises:
\* the write is outside the try of the loop, so the exception reaches the
\* `except Exception` handler of the task
OrchCompleteRaises ==
    /\ orchPc = "dispatch"
    /\ idx = fetched
    /\ progress' = Some([ ValueOf(progress) EXCEPT !.completed_steps = 4,
                                                    !.current_step = "Finalizing",
                                                    !.processed_items = fetched ])
    /\ HandleException
    /\ UNCHANGED <<filters_dict, provider, fetched, page, idx, counters, dispatched,
                   orchRuns>>
    /\ UNCHANGED <<reapVars, utcnow, OtherVars>>

NextStoreFaults ==
    \/ OrchStart
    \/ OrchInitProgress
    \/ OrchFetchPage
    \/ OrchEmpty
    \/ OrchTotals
    \/ OrchDispatch
    \/ OrchComplete
    \/ OrchCompleteRaises

SpecStoreFaults == InitPipeline /\ [][NextStoreFaults]_vars

\* C37: across the retries of the orchestrator task each item of the job is
\* dispatched at most once.
C37_DispatchedOnce ==
    \A i, j \in 1..Len(dispatched) :
        i # j => dispatched[i].meeting # dispatched[j].meeting

\* an iteration of the dispatch loop in which the dispatch raised
DispatchRaised ==
    /\ orchPc = "dispatch"
    /\ idx' = idx + 1
    /\ dispatched' = dispatched

\* the items named by the entries of an errors list of the dispatch loop
FailedItems(errors) == { errors[k] : k \in 1..Len(errors) }

\* C38: when the orchestrator completes a job with items, processed_meetings
\* + failed_meetings = total_meetings in the result; an item whose dispatch
\* raised is counted as failed with an entry in the errors of the result, and
\* the items after it are still dispatched.
C38_CountsAddUp ==
    /\ [][ (CompletionWrite /\ fetched > 0)
           => LET result == ValueOf(store'[job_id].result)
              IN /\ result.total_meetings = fetched
                 /\ result.processed_meetings + result.failed_meetings
                       = result.total_meetings
                 /\ Len(result.errors) = result.failed_meetings
                 /\ \A m \in 1..fetched :
                       IF m \in FailedItems(result.errors)
                       THEN \A k \in 1..Len(dispatched) : dispatched[k].meeting # m
                       ELSE \E k \in 1..Len(dispatched) : dispatched[k].meeting = m ]_vars
    /\ [][ DispatchRaised
           => /\ counters'.failed_meetings = counters.failed_meetings + 1
              /\ counters'.processed_meetings = counters.processed_meetings
              /\ counters'.errors = Append(counters.errors, idx + 1)
              /\ orchPc' = "dispatch" ]_vars

\* Of 3 items the dispatch of the second raised: the job is completed with
\* 2 processed, 1 failed, and the third item was dispatched.
C38_Witness ==
    /\ orchPc = "done"
    /\ StoredStatus = "completed"
    /\ fetched = 3
    /\ counters.errors = <<2>>
    /\ Len(dispatched) = 2
    /\ dispatched[2].meeting = 3
    /\ ValueOf(store[job_id].result).failed_meetings = 1

====
